---- MODULE Spec2Model ----
(***************************************************************************)
(* Model of the MySQL MCP server: the CallTool handler of MySQLMCPServer,   *)
(* the QueryHandler access gate and the DatabaseManager statement builder.  *)
(* A request is handled atomically; the outcome of every statement handed   *)
(* to the executor (mysql2) is an input of the action.                      *)
(***************************************************************************)
EXTENDS Integers, Sequences, FiniteSets, TLC

VARIABLES config, request, result, response, dbCall, stmts, securityLog, tools,
          startup, server, answers, calls, free, join, dbTables, listed, boot, mysql

vars == <<config, request, result, response, dbCall, stmts, securityLog, tools,
          startup, server, answers, calls, free, join, dbTables, listed, boot, mysql>>

(***************************************************************************)
(* Bounds of the model.                                                     *)
(***************************************************************************)
MaxRowsBound == 2
MaxLimit == 3
MaxCalls == 3
MaxSignals == 2
ConnectionLimit == 2

(***************************************************************************)
(* Optional values (JavaScript undefined / a present value).                *)
(***************************************************************************)
None == <<>>
Some(x) == <<x>>
IsSome(o) == o # <<>>
Opt(S) == {None} \cup {Some(x) : x \in S}

(* JavaScript truthiness of an optional number and of an optional string.  *)
TruthyNum(o) == IsSome(o) /\ o[1] # 0
TruthyStr(o) == IsSome(o) /\ o[1] # ""

(* Template-literal conversion of an optional string: undefined prints as   *)
(* the text "undefined".                                                    *)
StrOf(o) == IF IsSome(o) THEN o[1] ELSE "undefined"

Min(a, b) == IF a <= b THEN a ELSE b

(***************************************************************************)
(* Identifiers are sequences of characters, so that the identifier pattern  *)
(* of validateTableName is computed and not assumed.                        *)
(***************************************************************************)
Letters ==
  {"a","b","c","d","e","f","g","h","i","j","k","l","m","n","o","p","q","r",
   "s","t","u","v","w","x","y","z","A","B","C","D","E","F","G","H","I","J",
   "K","L","M","N","O","P","Q","R","S","T","U","V","W","X","Y","Z"}
Digits == {"0","1","2","3","4","5","6","7","8","9"}

Users == <<"u","s","e","r","s">>
Orders == <<"o","r","d","e","r","s">>
Secrets == <<"s","e","c","r","e","t","s">>
BadName == <<"x",";","-","-">>
EmptyName == <<>>
ColName == <<"n","a","m","e">>

TableNames == {Users, Orders, Secrets, BadName}

(* The table list the database answers SHOW TABLES with.                    *)
DbTables == <<Users, Orders, Secrets>>

(***************************************************************************)
(* Messages.                                                                *)
(***************************************************************************)
FetchDisabledMsg == "Fetch operations are disabled"
CreateDisabledMsg == "Create operations are disabled"
UpdateDisabledMsg == "Update operations are disabled"
DeleteDisabledMsg == "Delete operations are disabled"
CreateTableDisabledMsg == "Create table operations are disabled"
InsertToolDisabledMsg == "Insert operations are disabled"
ReadOnlyMsg == "Server is in read-only mode"
TableDeniedMsg == "Access to this table is not allowed"
CreateTableShapeMsg == "Table name and columns are required"
InvalidTableNameMsg == "Invalid table name. Only alphanumeric characters and underscores are allowed."
ExecErrorMsg == "ER_EXECUTION_FAILED"

UnauthorizedEvent == "Unauthorized table access attempt"
ReadOnlyEvent == "Write operation attempted in read-only mode"
InvalidNameEvent == "Invalid table name attempt"

(***************************************************************************)
(* DatabaseManager: statements handed to the executor.  A statement is the  *)
(* text the builder assembles, kept as its parts: a clause that the text    *)
(* does not contain is None, an interpolated fragment is the fragment.      *)
(***************************************************************************)
Outcomes == {"ok", "fail"}

Stmt(verb, table, columns, where, orderBy, limit, offset, params) ==
  [verb |-> verb, table |-> table, columns |-> columns, where |-> where,
   orderBy |-> orderBy, limit |-> limit, offset |-> offset, params |-> params]

(* What a DatabaseManager method hands back to the QueryHandler: whether it *)
(* returned or threw, the message thrown, the statements that reached the   *)
(* executor, the security events logged and the rows returned.              *)
DbResult(ok, error, sts, log, rows) ==
  [ok |-> ok, error |-> error, stmts |-> sts, log |-> log, rows |-> rows]

SecurityEvent(event, tableName, operation) ==
  [event |-> event, tableName |-> tableName, operation |-> operation]

validateTableName(tableName) ==
  /\ Len(tableName) > 0
  /\ tableName[1] \in Letters \cup {"_"}
  /\ \A i \in 2..Len(tableName) : tableName[i] \in Letters \cup Digits \cup {"_"}

InvalidNameResult(tableName) ==
  DbResult(FALSE, InvalidTableNameMsg, <<>>,
           <<SecurityEvent(InvalidNameEvent, tableName, "")>>, <<>>)

(* The message of the error the driver throws for an answer that is not    *)
(* "ok": the answer names it.                                               *)
ErrorMessage(out) == IF out = "fail" THEN ExecErrorMsg ELSE out

executeQuery(query, out, rows) ==
  IF out = "ok"
  THEN DbResult(TRUE, "", <<query>>, <<>>, rows)
  ELSE DbResult(FALSE, ErrorMessage(out), <<query>>, <<>>, <<>>)

getTables(out) ==
  executeQuery(Stmt("SHOW TABLES", EmptyName, <<>>, None, None, None, None, None),
               out, dbTables)

(* What the database answers to the DESCRIBE and to the row count statement. *)
DescribeRows ==
  << <<"id", "int", "NO", "PRI", None>>, <<"name", "varchar(255)", "YES", "", None>> >>

CountRows == << <<3>> >>

ColumnInfo(row) ==
  [name |-> row[1], type |-> row[2], nullable |-> (row[3] = "YES"), key |-> row[4],
   default |-> row[5]]

(* The row count taken from the number of column rows.                      *)
TableInfo_CountOfColumns(tableName, columnsResult, countResult) ==
  [name |-> tableName,
   columns |-> [i \in 1..Len(columnsResult) |-> ColumnInfo(columnsResult[i])],
   rowCount |-> Len(columnsResult)]

TableInfo(tableName, columnsResult, countResult) ==
  [name |-> tableName,
   columns |-> [i \in 1..Len(columnsResult) |-> ColumnInfo(columnsResult[i])],
   rowCount |-> countResult[1][1]]

(* Promise.all over two executeQuery calls: both statements are dispatched, *)
(* the join succeeds only when both do and rejects with the rejection that  *)
(* comes first (first says which, when both reject).                        *)
getTableInfo(tableName, out1, out2, first) ==
  IF ~validateTableName(tableName) THEN InvalidNameResult(tableName)
  ELSE LET q1 == executeQuery(Stmt("DESCRIBE", tableName, <<>>, None, None, None, None, None),
                              out1, DescribeRows)
           q2 == executeQuery(Stmt("SELECT COUNT", tableName, <<>>, None, None, None, None, None),
                              out2, CountRows)
           rejected == IF ~q1.ok /\ (q2.ok \/ first = 1) THEN q1 ELSE q2
       IN IF q1.ok /\ q2.ok
          THEN DbResult(TRUE, "", q1.stmts \o q2.stmts, <<>>,
                        <<TableInfo(tableName, q1.rows, q2.rows)>>)
          ELSE DbResult(FALSE, rejected.error, q1.stmts \o q2.stmts, <<>>, <<>>)

(* selectFromTable leaving the filter out of the statement.                 *)
selectFromTable_NoWhere(tableName, options, out) ==
  IF ~validateTableName(tableName) THEN InvalidNameResult(tableName)
  ELSE executeQuery(
         Stmt("SELECT", tableName, options.columns,
              None,
              IF TruthyStr(options.orderBy) THEN options.orderBy ELSE None,
              IF TruthyNum(options.limit) THEN options.limit ELSE None,
              IF TruthyNum(options.limit) /\ TruthyNum(options.offset)
                THEN options.offset ELSE None,
              None),
         out, <<>>)

selectFromTable(tableName, options, out) ==
  IF ~validateTableName(tableName) THEN InvalidNameResult(tableName)
  ELSE executeQuery(
         Stmt("SELECT", tableName, options.columns,
              IF TruthyStr(options.where) THEN options.where ELSE None,
              IF TruthyStr(options.orderBy) THEN options.orderBy ELSE None,
              IF TruthyNum(options.limit) THEN options.limit ELSE None,
              IF TruthyNum(options.limit) /\ TruthyNum(options.offset)
                THEN options.offset ELSE None,
              None),
         out, <<>>)

Keys(data) == [i \in 1..Len(data) |-> data[i].k]
Values(data) == [i \in 1..Len(data) |-> data[i].v]

insertIntoTable(tableName, data, out) ==
  IF ~validateTableName(tableName) THEN InvalidNameResult(tableName)
  ELSE executeQuery(
         Stmt("INSERT", tableName, Keys(data), None, None, None, None,
              Some(Values(data))),
         out, <<>>)

(* updateTable binding the filter parameters before the update values.     *)
updateTable_FilterFirst(tableName, data, where, whereParams, out) ==
  IF ~validateTableName(tableName) THEN InvalidNameResult(tableName)
  ELSE executeQuery(
         Stmt("UPDATE", tableName, Keys(data), Some(StrOf(where)), None, None, None,
              Some((IF IsSome(whereParams) THEN whereParams[1] ELSE <<>>) \o Values(data))),
         out, <<>>)

updateTable(tableName, data, where, whereParams, out) ==
  IF ~validateTableName(tableName) THEN InvalidNameResult(tableName)
  ELSE executeQuery(
         Stmt("UPDATE", tableName, Keys(data), Some(StrOf(where)), None, None, None,
              Some(Values(data) \o (IF IsSome(whereParams) THEN whereParams[1] ELSE <<>>))),
         out, <<>>)

deleteFromTable(tableName, where, whereParams, out) ==
  IF ~validateTableName(tableName) THEN InvalidNameResult(tableName)
  ELSE executeQuery(
         Stmt("DELETE", tableName, <<>>, Some(StrOf(where)), None, None, None,
              whereParams),
         out, <<>>)

(* DatabaseManager.createTable: one DDL statement naming the table and its  *)
(* columns, handed to the executor.                                         *)
dbCreateTable(options, out) ==
  executeQuery(
    Stmt("CREATE TABLE", options.tableName, options.columns, None, None, None, None, None),
    out, <<>>)

(***************************************************************************)
(* QueryHandler: the access gate in front of the DatabaseManager.           *)
(***************************************************************************)
DefaultMaxRows == 1000

Contains(list, x) == \E i \in 1..Len(list) : list[i] = x

McpResponse(success, error, data) ==
  [success |-> success, error |-> error, data |-> data]

(* What handling a request did: the McpResponse returned, the               *)
(* DatabaseManager method called ("none" when the gate returned first), the *)
(* statements that reached the executor and the security events logged.     *)
Handled(res, call, sts, log) ==
  [res |-> res, dbCall |-> call, stmts |-> sts, log |-> log]

Denied(error, log) == Handled(McpResponse(FALSE, error, <<>>), "none", <<>>, log)

(* The catch that answers with a text of its own instead of the message.    *)
Called_Masked(call, r, data) ==
  Handled(McpResponse(r.ok, IF r.ok THEN "" ELSE "Database operation failed",
                      IF r.ok THEN data ELSE <<>>),
          call, r.stmts, r.log)

(* The try/catch around a DatabaseManager call: success wraps the result,   *)
(* a throw becomes a failure response carrying the thrown message.          *)
Called(call, r, data) ==
  Handled(McpResponse(r.ok, r.error, IF r.ok THEN data ELSE <<>>),
          call, r.stmts, r.log)

isTableAllowed(tableName) ==
  LET allowedTables == config.security.allowedTables
      blockedTables == config.security.blockedTables
  IN IF Contains(blockedTables, tableName) THEN FALSE
     ELSE IF IsSome(allowedTables) /\ Len(allowedTables[1]) > 0
          THEN Contains(allowedTables[1], tableName)
          ELSE TRUE

(* The filter that only looks at the allow list.                            *)
filterAllowedTables_AllowListOnly(tables) ==
  SelectSeq(tables,
            LAMBDA t : LET allowedTables == config.security.allowedTables
                       IN (IsSome(allowedTables) /\ Len(allowedTables[1]) > 0)
                            => Contains(allowedTables[1], t))

filterAllowedTables(tables) == SelectSeq(tables, isTableAllowed)

(* The success response with metadata.rowCount.                             *)
WithRowCount(res, n) ==
  [success |-> res.success, error |-> res.error, data |-> res.data, rowCount |-> n]

(* listTables answering with the allowed tables it has not reported in the  *)
(* call before.                                                             *)
listTables_OnlyNew(out) ==
  LET r == getTables(out)
      filteredTables ==
        SelectSeq(filterAllowedTables(r.rows),
                  LAMBDA t : listed = <<>> \/ ~Contains(listed[Len(listed)].data, t))
      h == Called("getTables", r, filteredTables)
  IN IF r.ok THEN [h EXCEPT !.res = WithRowCount(h.res, Len(filteredTables))] ELSE h

listTables(out) ==
  LET r == getTables(out)
      filteredTables == filterAllowedTables(r.rows)
      h == Called("getTables", r, filteredTables)
  IN IF r.ok THEN [h EXCEPT !.res = WithRowCount(h.res, Len(filteredTables))] ELSE h

describeTable(tableName, out1, out2, first) ==
  IF ~isTableAllowed(tableName)
  THEN Denied(TableDeniedMsg, <<SecurityEvent(UnauthorizedEvent, tableName, "")>>)
  ELSE LET r == getTableInfo(tableName, out1, out2, first)
       IN Called("getTableInfo", r, r.rows)

OrElse(n, d) == IF n # 0 THEN n ELSE d

(* selectLimit without the ceiling: the requested limit is used as given.   *)
selectLimit_Uncapped(options) ==
  IF TruthyNum(options.limit) THEN options.limit[1]
  ELSE OrElse(config.security.maxRows, DefaultMaxRows)

selectLimit(options) ==
  Min(IF TruthyNum(options.limit) THEN options.limit[1]
      ELSE OrElse(config.security.maxRows, DefaultMaxRows),
      OrElse(config.security.maxRows, DefaultMaxRows))

(* selectData with the table authorization evaluated after the query ran.  *)
selectData_CheckAfterQuery(tableName, options, out) ==
  IF ~config.features.fetch THEN Denied(FetchDisabledMsg, <<>>)
  ELSE LET r == selectFromTable(tableName,
                                [options EXCEPT !.limit = Some(selectLimit(options))],
                                out)
       IN IF ~isTableAllowed(tableName)
          THEN Handled(McpResponse(FALSE, TableDeniedMsg, <<>>), "selectFromTable",
                       r.stmts, <<SecurityEvent(UnauthorizedEvent, tableName, "")>>)
          ELSE Called("selectFromTable", r, <<>>)

selectData(tableName, options, out) ==
  IF ~config.features.fetch THEN Denied(FetchDisabledMsg, <<>>)
  ELSE IF ~isTableAllowed(tableName)
  THEN Denied(TableDeniedMsg, <<SecurityEvent(UnauthorizedEvent, tableName, "")>>)
  ELSE Called("selectFromTable",
              selectFromTable(tableName,
                              [options EXCEPT !.limit = Some(selectLimit(options))],
                              out),
              <<>>)

(* insertData without the read-only check.                                  *)
insertData_NoReadOnlyCheck(tableName, data, out) ==
  IF ~config.features.create THEN Denied(CreateDisabledMsg, <<>>)
  ELSE IF ~isTableAllowed(tableName)
  THEN Denied(TableDeniedMsg, <<SecurityEvent(UnauthorizedEvent, tableName, "")>>)
  ELSE Called("insertIntoTable", insertIntoTable(tableName, data, out), <<>>)

insertData(tableName, data, out) ==
  IF ~config.features.create THEN Denied(CreateDisabledMsg, <<>>)
  ELSE IF config.security.readOnly
  THEN Denied(ReadOnlyMsg, <<SecurityEvent(ReadOnlyEvent, tableName, "insert")>>)
  ELSE IF ~isTableAllowed(tableName)
  THEN Denied(TableDeniedMsg, <<SecurityEvent(UnauthorizedEvent, tableName, "")>>)
  ELSE Called("insertIntoTable", insertIntoTable(tableName, data, out), <<>>)

updateData(tableName, data, where, whereParams, out) ==
  IF ~config.features.update THEN Denied(UpdateDisabledMsg, <<>>)
  ELSE IF config.security.readOnly
  THEN Denied(ReadOnlyMsg, <<SecurityEvent(ReadOnlyEvent, tableName, "update")>>)
  ELSE IF ~isTableAllowed(tableName)
  THEN Denied(TableDeniedMsg, <<SecurityEvent(UnauthorizedEvent, tableName, "")>>)
  ELSE Called("updateTable", updateTable(tableName, data, where, whereParams, out), <<>>)

deleteData(tableName, where, whereParams, out) ==
  IF ~config.features.delete THEN Denied(DeleteDisabledMsg, <<>>)
  ELSE IF config.security.readOnly
  THEN Denied(ReadOnlyMsg, <<SecurityEvent(ReadOnlyEvent, tableName, "delete")>>)
  ELSE IF ~isTableAllowed(tableName)
  THEN Denied(TableDeniedMsg, <<SecurityEvent(UnauthorizedEvent, tableName, "")>>)
  ELSE Called("deleteFromTable", deleteFromTable(tableName, where, whereParams, out), <<>>)

(* createTable without the check of the request's shape.                    *)
createTable_NoShapeCheck(options, out) ==
  IF ~config.features.createTable THEN Denied(CreateTableDisabledMsg, <<>>)
  ELSE IF config.security.readOnly
  THEN Denied(ReadOnlyMsg,
              <<SecurityEvent(ReadOnlyEvent, options.tableName, "createTable")>>)
  ELSE Called("createTable", dbCreateTable(options, out), <<>>)

createTable(options, out) ==
  IF ~config.features.createTable THEN Denied(CreateTableDisabledMsg, <<>>)
  ELSE IF config.security.readOnly
  THEN Denied(ReadOnlyMsg,
              <<SecurityEvent(ReadOnlyEvent, options.tableName, "createTable")>>)
  ELSE IF options.tableName = EmptyName \/ Len(options.columns) = 0
  THEN Denied(CreateTableShapeMsg, <<>>)
  ELSE Called("createTable", dbCreateTable(options, out), <<>>)

(***************************************************************************)
(* Configuration resolution: getDefaultConfig over the environment, the     *)
(* constructor's shallow merge of the overrides, validateConfig.  A raw     *)
(* section is a record holding the keys that are present.                   *)
(***************************************************************************)
DigitValue ==
  [c \in Digits |->
     CASE c = "0" -> 0 [] c = "1" -> 1 [] c = "2" -> 2 [] c = "3" -> 3 [] c = "4" -> 4
       [] c = "5" -> 5 [] c = "6" -> 6 [] c = "7" -> 7 [] c = "8" -> 8 [] c = "9" -> 9]

NaN == -1

RECURSIVE ParseDigits(_, _, _)
ParseDigits(s, i, acc) ==
  IF i > Len(s) \/ s[i] \notin Digits THEN acc
  ELSE ParseDigits(s, i + 1, 10 * acc + DigitValue[s[i]])

(* parseInt of a text without sign or blanks: the value of its leading      *)
(* digits, NaN when it has none.                                            *)
parseInt(s) == IF Len(s) = 0 \/ s[1] \notin Digits THEN NaN ELSE ParseDigits(s, 1, 0)

RECURSIVE SplitFrom(_, _, _)
SplitFrom(s, i, cur) ==
  IF i > Len(s) THEN <<cur>>
  ELSE IF s[i] = "," THEN <<cur>> \o SplitFrom(s, i + 1, <<>>)
  ELSE SplitFrom(s, i + 1, Append(cur, s[i]))

(* String.prototype.split(',')                                              *)
Split(s) == SplitFrom(s, 1, <<>>)

ThousandText == <<"1","0","0","0">>

(* process.env: every variable is absent or a text.                         *)
NoEnv ==
  [MYSQL_PASSWORD |-> None, MYSQL_ALLOW_CREATE |-> None, MYSQL_ALLOW_UPDATE |-> None,
   MYSQL_ALLOW_DELETE |-> None, MYSQL_ALLOWED_TABLES |-> None,
   MYSQL_BLOCKED_TABLES |-> None, MYSQL_MAX_ROWS |-> None, MYSQL_READ_ONLY |-> None]

(* readOnly read as "on only when the variable says true".                  *)
defaultReadOnly_OptIn(env) == env.MYSQL_READ_ONLY = Some("true")

defaultReadOnly(env) == env.MYSQL_READ_ONLY # Some("false")

getDefaultConfig(env) ==
  [database |->
     [password |-> IF TruthyStr(env.MYSQL_PASSWORD) THEN env.MYSQL_PASSWORD[1] ELSE ""],
   features |->
     [fetch |-> TRUE,
      create |-> env.MYSQL_ALLOW_CREATE = Some("true"),
      update |-> env.MYSQL_ALLOW_UPDATE = Some("true"),
      delete |-> env.MYSQL_ALLOW_DELETE = Some("true")],
   security |->
     [allowedTables |-> IF IsSome(env.MYSQL_ALLOWED_TABLES)
                        THEN Some(Split(env.MYSQL_ALLOWED_TABLES[1])) ELSE None,
      blockedTables |-> IF IsSome(env.MYSQL_BLOCKED_TABLES)
                        THEN Split(env.MYSQL_BLOCKED_TABLES[1]) ELSE <<>>,
      maxRows |-> parseInt(IF IsSome(env.MYSQL_MAX_ROWS) /\ env.MYSQL_MAX_ROWS[1] # <<>>
                           THEN env.MYSQL_MAX_ROWS[1] ELSE ThousandText),
      readOnly |-> defaultReadOnly(env)]]

(* { ...defaultConfig, ...config }: a section the overrides name replaces   *)
(* the default section whole.                                               *)
mergedConfig(defaultConfig, overrides) ==
  IF IsSome(overrides)
  THEN [k \in DOMAIN defaultConfig |->
          IF k \in DOMAIN overrides[1] THEN overrides[1][k] ELSE defaultConfig[k]]
  ELSE defaultConfig

Get(section, key, default) == IF key \in DOMAIN section THEN section[key] ELSE default

JoiMaxRowsMin == 1
JoiMaxRowsMax == 10000

(* The createTable feature flag of the resolved configuration: off unless   *)
(* the configuration sets it.                                               *)
featureCreateTable(features) == Get(features, "createTable", FALSE)

(* configSchema.validate: the error raised, if any, and the value with the  *)
(* schema defaults filled in.  A string may not be empty.                   *)
validateConfig(cfg) ==
  LET maxRows == Get(cfg.security, "maxRows", DefaultMaxRows)
      value ==
        [features |->
           [fetch |-> Get(cfg.features, "fetch", TRUE),
            create |-> Get(cfg.features, "create", FALSE),
            update |-> Get(cfg.features, "update", FALSE),
            delete |-> Get(cfg.features, "delete", FALSE),
            createTable |-> featureCreateTable(cfg.features)],
         security |->
           [allowedTables |-> Get(cfg.security, "allowedTables", None),
            blockedTables |-> Get(cfg.security, "blockedTables", <<>>),
            maxRows |-> maxRows,
            readOnly |-> Get(cfg.security, "readOnly", TRUE)]]
      error ==
        IF cfg.database.password = "" THEN Some("\"database.password\" is not allowed to be empty")
        ELSE IF maxRows < JoiMaxRowsMin \/ maxRows > JoiMaxRowsMax
        THEN Some("\"security.maxRows\" is out of range")
        ELSE IF Contains(value.security.blockedTables, EmptyName)
                \/ (IsSome(value.security.allowedTables)
                    /\ Contains(value.security.allowedTables[1], EmptyName))
        THEN Some("a table name is not allowed to be empty")
        ELSE None
  IN [error |-> error, value |-> value]

(***************************************************************************)
(* The resolved configuration (ServerConfig) and the tool requests.         *)
(***************************************************************************)
Features ==
  [fetch : BOOLEAN, create : BOOLEAN, update : BOOLEAN, delete : BOOLEAN,
   createTable : BOOLEAN]

Security ==
  [allowedTables : {None, Some(<<>>), Some(<<Users>>), Some(<<Users, Secrets>>)},
   blockedTables : {<<>>, <<Secrets>>},
   maxRows : 1..MaxRowsBound,
   readOnly : BOOLEAN]

Configs == [features : Features, security : Security]

Wheres == {None, Some(""), Some("id = 1")}
DataSets == {<<[k |-> ColName, v |-> "a"]>>}
WhereParams == {None, Some(<<"1">>)}
ColumnSpecs == {<<>>, <<ColName>>}

SelectOptions(wheres, limits, offsets) ==
  [columns : {<<>>}, where : wheres, orderBy : {None},
   limit : limits, offset : offsets]

Request(tool, tableName, options, data, whereParams) ==
  [tool |-> tool, tableName |-> tableName, options |-> options,
   data |-> data, whereParams |-> whereParams]

NoOptions ==
  [columns |-> <<>>, where |-> None, orderBy |-> None, limit |-> None, offset |-> None]

NoRequest == Request("none", EmptyName, NoOptions, <<>>, None)

(* The text content the CallTool handler returns: the prefix the text       *)
(* starts with ("" for a success text), the text after it, and whether the  *)
(* text is an error text.                                                   *)
ErrorPrefix == "Error: "
ThrownPrefix == "Error executing "
ErrorText(message) == [isError |-> TRUE, prefix |-> ErrorPrefix, text |-> message]
OkText(text) == [isError |-> FALSE, prefix |-> "", text |-> text]

(* The handler returning the failure message as it is, without a prefix.    *)
TextOf_NoPrefix(res, okText) == OkText(IF res.success THEN okText ELSE res.error)

TextOf(res, okText) == IF res.success THEN OkText(okText) ELSE ErrorText(res.error)

(* main() before it calls start(): nothing acquired, the pool open, no      *)
(* signal handler running, the process alive.                               *)
NoBoot ==
  [pc |-> "none", connection |-> 0, released |-> 0, testError |-> None,
   start |-> "pending", startError |-> None, pool |-> "open", closeCalls |-> 0,
   cleanups |-> 0, cleanupThrown |-> 0, closeFailures |-> 0,
   handlers |-> [h \in 1..MaxSignals |-> "idle"], exit |-> None]

(* The database contents, for the requests whose answer is computed from   *)
(* them: two database states side by side (each a row list per table), the  *)
(* rows the last request returned from each, the insert the last request    *)
(* made (if it made one) and the insert the request before it made.         *)
StoredTables == {Users, Secrets}
EmptyDb == [t \in StoredTables |-> <<>>]
NoMysql ==
  [tables |-> <<EmptyDb, EmptyDb>>, rows |-> << <<>>, <<>> >>, last |-> None,
   prev |-> None]

(* An executeQuery call not yet made: no connection, nothing released.      *)
IdleCall ==
  [pc |-> "idle", query |-> None, connection |-> 0, released |-> 0,
   outcome |-> "none", error |-> "", rows |-> <<>>]

(* No getTableInfo under way.                                               *)
NoJoin == [state |-> "none", table |-> EmptyName, error |-> "", result |-> None]

Init ==
  /\ config \in Configs
  /\ request = NoRequest
  /\ result = None
  /\ response = OkText("")
  /\ dbCall = "none"
  /\ stmts = <<>>
  /\ securityLog = <<>>
  /\ tools = <<>>
  /\ startup = None
  /\ server = "running"
  /\ answers = <<>>
  /\ calls = [c \in 1..MaxCalls |-> IdleCall]
  /\ free = 1..ConnectionLimit
  /\ join = NoJoin
  /\ dbTables = DbTables
  /\ listed = <<>>
  /\ boot = NoBoot
  /\ mysql = NoMysql

(* A request that switches read-only mode off in the snapshot.              *)
Frame_ClearsReadOnly ==
  /\ config' = [config EXCEPT !.security.readOnly = FALSE]
  /\ UNCHANGED <<tools, startup, server, calls, free, join, dbTables, listed, boot, mysql>>

(* What a CallTool request leaves alone.                                    *)
HandlerFrame ==
  UNCHANGED <<config, tools, startup, server, calls, free, join, dbTables, listed, boot>>

Frame == HandlerFrame /\ UNCHANGED mysql

(* The request went through the QueryHandler method whose outcome is h.     *)
Respond(h, okText) ==
  /\ result' = Some(h.res)
  /\ response' = TextOf(h.res, okText)
  /\ dbCall' = h.dbCall
  /\ stmts' = h.stmts
  /\ securityLog' = h.log

(* The CallTool handler answered without calling the QueryHandler.          *)
Refuse(message) ==
  /\ result' = None
  /\ response' = ErrorText(message)
  /\ dbCall' = "none"
  /\ stmts' = <<>>
  /\ securityLog' = <<>>

ListTablesCase(out) ==
  /\ server = "running"
  /\ answers' = <<out>>
  /\ request' = Request("mysql_list_tables", EmptyName, NoOptions, <<>>, None)
  /\ Respond(listTables(out), "Available tables")

CallListTables(out) ==
  /\ ListTablesCase(out)
  /\ Frame

CallDescribeTable(tableName, out1, out2, first) ==
  /\ server = "running"
  /\ request' = Request("mysql_describe_table", tableName, NoOptions, <<>>, None)
  /\ answers' = <<out1, out2>>
  /\ Respond(describeTable(tableName, out1, out2, first), "formatted")
  /\ Frame

CallSelectData(tableName, options, out) ==
  /\ server = "running"
  /\ answers' = <<out>>
  /\ request' = Request("mysql_select_data", tableName, options, <<>>, None)
  /\ Respond(selectData(tableName, options, out), "formatted")
  /\ Frame

CallInsertData(tableName, data, out) ==
  /\ server = "running"
  /\ answers' = <<out>>
  /\ request' = Request("mysql_insert_data", tableName, NoOptions, data, None)
  /\ IF ~config.features.create THEN Refuse(InsertToolDisabledMsg)
     ELSE Respond(insertData(tableName, data, out), "Data inserted successfully")
  /\ Frame

CallUpdateData(tableName, data, where, whereParams, out) ==
  /\ server = "running"
  /\ answers' = <<out>>
  /\ request' = Request("mysql_update_data", tableName,
                        [NoOptions EXCEPT !.where = where], data, whereParams)
  /\ IF ~config.features.update THEN Refuse(UpdateDisabledMsg)
     ELSE Respond(updateData(tableName, data, where, whereParams, out),
                  "Data updated successfully")
  /\ Frame

CallDeleteData(tableName, where, whereParams, out) ==
  /\ server = "running"
  /\ answers' = <<out>>
  /\ request' = Request("mysql_delete_data", tableName,
                        [NoOptions EXCEPT !.where = where], <<>>, whereParams)
  /\ IF ~config.features.delete THEN Refuse(DeleteDisabledMsg)
     ELSE Respond(deleteData(tableName, where, whereParams, out),
                  "Data deleted successfully")
  /\ Frame

CallCreateTable(tableName, columns, out) ==
  /\ server = "running"
  /\ answers' = <<out>>
  /\ request' = Request("mysql_create_table", tableName,
                        [NoOptions EXCEPT !.columns = columns], <<>>, None)
  /\ IF ~config.features.createTable THEN Refuse(CreateTableDisabledMsg)
     ELSE Respond(createTable([tableName |-> tableName, columns |-> columns], out),
                  "Table created successfully")
  /\ Frame

(* The ListTools handler: the three read tools, then each mutation tool     *)
(* whose feature flag is set.                                               *)
(* The insert tool pushed whatever the create flag says.                    *)
toolsPushInsert_Always == <<"mysql_insert_data">>

toolsPushInsert == IF config.features.create THEN <<"mysql_insert_data">> ELSE <<>>

toolList ==
  <<"mysql_list_tables", "mysql_describe_table", "mysql_select_data">>
  \o toolsPushInsert
  \o (IF config.features.update THEN <<"mysql_update_data">> ELSE <<>>)
  \o (IF config.features.delete THEN <<"mysql_delete_data">> ELSE <<>>)
  \o (IF config.features.createTable THEN <<"mysql_create_table">> ELSE <<>>)

ListTools ==
  /\ server = "running"
  /\ tools' = toolList
  /\ UNCHANGED <<config, request, result, response, dbCall, stmts, securityLog,
                 startup, server, answers, calls, free, join, dbTables, listed, boot, mysql>>

Next ==
  \/ \E out \in Outcomes : CallListTables(out)
  \/ \E t \in TableNames, o1 \in Outcomes, o2 \in Outcomes, first \in 1..2 :
       CallDescribeTable(t, o1, o2, first)
  \/ \E t \in TableNames, out \in Outcomes,
        o \in SelectOptions({None}, {None, Some(0), Some(MaxLimit)}, {None}) :
       CallSelectData(t, o, out)
  \/ \E t \in TableNames, d \in DataSets, out \in Outcomes : CallInsertData(t, d, out)
  \/ \E t \in TableNames, d \in DataSets, w \in Wheres, out \in Outcomes :
       CallUpdateData(t, d, w, None, out)
  \/ \E t \in TableNames, w \in Wheres, out \in Outcomes :
       CallDeleteData(t, w, None, out)
  \/ \E t \in TableNames \cup {EmptyName}, c \in ColumnSpecs, out \in Outcomes :
       CallCreateTable(t, c, out)

Spec == Init /\ [][Next]_vars

(***************************************************************************)
(* Select requests over the whole range of limits and offsets, under        *)
(* configurations whose mutation features are off.                          *)
(***************************************************************************)
Limits == Opt(-1..MaxLimit)
Offsets == Opt({0, 2})

InitSelect ==
  /\ Init
  /\ ~config.features.create /\ ~config.features.update
  /\ ~config.features.delete /\ ~config.features.createTable

NextSelect ==
  \E t \in TableNames, out \in Outcomes,
     o \in SelectOptions({None, Some("id = 1")}, Limits, Offsets) :
    CallSelectData(t, o, out)

SelectSpec == InitSelect /\ [][NextSelect]_vars

(***************************************************************************)
(* The statement builder over column lists, data mappings, filter and       *)
(* ordering text, under configurations that admit every kind of request.    *)
(***************************************************************************)
AgeName == <<"a","g","e">>

BuilderColumns == {<<>>, <<ColName>>, <<ColName, BadName>>}
BuilderData ==
  {<<[k |-> ColName, v |-> "a"]>>,
   <<[k |-> BadName, v |-> "a"]>>,
   <<[k |-> ColName, v |-> "a"], [k |-> AgeName, v |-> "1"]>>}
BuilderOptions ==
  [columns : BuilderColumns, where : {None, Some("id = 1")},
   orderBy : {None, Some("name ASC")}, limit : {None, Some(1)},
   offset : {None, Some(2)}]

InitBuilder ==
  /\ Init
  /\ config.features =
       [fetch |-> TRUE, create |-> TRUE, update |-> TRUE, delete |-> TRUE,
        createTable |-> TRUE]
  /\ ~config.security.readOnly

BuilderWhereParams == WhereParams \cup {Some(<<"2", "1">>)}

NextBuilder ==
  \/ \E t \in TableNames, o1 \in Outcomes, o2 \in Outcomes, first \in 1..2 :
       CallDescribeTable(t, o1, o2, first)
  \/ \E t \in TableNames, o \in BuilderOptions, out \in Outcomes : CallSelectData(t, o, out)
  \/ \E t \in TableNames, d \in BuilderData, out \in Outcomes : CallInsertData(t, d, out)
  \/ \E t \in TableNames, d \in BuilderData, w \in {Some("id = ?"), Some("id = 1")},
        p \in BuilderWhereParams, out \in Outcomes :
       CallUpdateData(t, d, w, p, out)
  \/ \E t \in TableNames, w \in {Some("id = ?"), Some("id = 1")},
        p \in WhereParams, out \in Outcomes :
       CallDeleteData(t, w, p, out)

BuilderSpec == InitBuilder /\ [][NextBuilder]_vars

(***************************************************************************)
(* The exposed tool surface: tool listing and calls of the mutation tools.  *)
(***************************************************************************)
NextSurface ==
  \/ ListTools
  \/ \E t \in {Users, Secrets}, d \in DataSets, out \in Outcomes : CallInsertData(t, d, out)
  \/ \E t \in {Users, Secrets}, d \in DataSets, out \in Outcomes :
       CallUpdateData(t, d, Some("id = 1"), None, out)
  \/ \E t \in {Users, Secrets}, out \in Outcomes :
       CallDeleteData(t, Some("id = 1"), None, out)
  \/ \E t \in {Users, Secrets}, c \in ColumnSpecs, out \in Outcomes :
       CallCreateTable(t, c, out)

SurfaceSpec == Init /\ [][NextSurface]_vars

(***************************************************************************)
(* Executor failures: every feature enabled, the driver answers "ok" or     *)
(* throws one of several errors.                                            *)
(***************************************************************************)
DriverAnswers == {"ok", "ER_NO_SUCH_TABLE", "ECONNREFUSED"}

NextFailure ==
  \/ \E out \in DriverAnswers : CallListTables(out)
  \/ \E t \in {Users, Secrets}, out1 \in DriverAnswers, out2 \in DriverAnswers,
        first \in 1..2 :
       CallDescribeTable(t, out1, out2, first)
  \/ \E t \in {Users, Secrets}, out \in DriverAnswers,
        o \in SelectOptions({None, Some("id = 1")}, {None}, {None}) :
       CallSelectData(t, o, out)
  \/ \E t \in {Users, Secrets}, d \in DataSets, out \in DriverAnswers :
       CallInsertData(t, d, out)
  \/ \E t \in {Users, Secrets}, d \in DataSets, out \in DriverAnswers :
       CallUpdateData(t, d, Some("id = 1"), None, out)
  \/ \E t \in {Users, Secrets}, out \in DriverAnswers :
       CallDeleteData(t, Some("id = 1"), None, out)
  \/ \E t \in {Users, Secrets}, c \in ColumnSpecs, out \in DriverAnswers :
       CallCreateTable(t, c, out)

FailureSpec == InitBuilder /\ [][NextFailure]_vars

(***************************************************************************)
(* The CallTool dispatch: every tool name, known or not, under every        *)
(* configuration and every driver answer.                                   *)
(***************************************************************************)
UnknownNames == {"mysql_drop_table", "list_tables"}

UnknownToolMsg == "Unknown tool: "

(* The outer catch: `Error executing ${name}: ${message}`; the name is the  *)
(* request's tool name.                                                     *)
ThrownText(message) == [isError |-> TRUE, prefix |-> ThrownPrefix, text |-> message]

(* default: throw new Error(`Unknown tool: ${name}`), caught by the outer   *)
(* catch of the handler.                                                    *)
CallUnknownTool(name) ==
  /\ server = "running"
  /\ name \in UnknownNames
  /\ answers' = <<>>
  /\ request' = Request(name, EmptyName, NoOptions, <<>>, None)
  /\ result' = None
  /\ response' = ThrownText(UnknownToolMsg)
  /\ dbCall' = "none"
  /\ stmts' = <<>>
  /\ securityLog' = <<>>
  /\ Frame

NextDispatch ==
  \/ NextFailure
  \/ \E name \in UnknownNames : CallUnknownTool(name)

DispatchSpec == Init /\ [][NextDispatch]_vars

(***************************************************************************)
(* The database behind the executor.  The statements are the ones the       *)
(* DatabaseManager builds; the database answers them from its contents.     *)
(* Two database states are kept side by side and receive the same           *)
(* statements; they may differ in the tables of blockedTables only.         *)
(***************************************************************************)
MaxStored == 2

AgeCol == <<"a","g","e">>
RowA == <<[k |-> ColName, v |-> "a"], [k |-> AgeCol, v |-> 1]>>
RowB == <<[k |-> ColName, v |-> "b"], [k |-> AgeCol, v |-> 2]>>

(* The rows written in this database: any row into users, rows named "a"    *)
(* into secrets.                                                            *)
StoredInserts ==
  {[tableName |-> Users, data |-> RowA], [tableName |-> Users, data |-> RowB],
   [tableName |-> Secrets, data |-> RowA]}

(* Filter texts: a comparison on the selected table and a sub-query on      *)
(* another table.                                                           *)
NameIsA == "name = 'a'"
SecretsHasA == "EXISTS (SELECT 1 FROM secrets WHERE name = 'a')"
StoredOptions == SelectOptions({None, Some(NameIsA), Some(SecretsHasA)}, {None, Some(1)}, {None})

ValueOf(row, col) == row[CHOOSE i \in 1..Len(row) : row[i].k = col].v
HasNameA(rows) == \E i \in 1..Len(rows) : ValueOf(rows[i], ColName) = "a"

(* What the database makes of the WHERE text of a statement.                *)
WhereHolds(where, row, tables) ==
  IF where = Some(NameIsA) THEN ValueOf(row, ColName) = "a"
  ELSE IF where = Some(SecretsHasA) THEN HasNameA(tables[Secrets])
  ELSE TRUE

Skip(seq, n) == SubSeq(seq, n + 1, Len(seq))
Take(seq, n) == SubSeq(seq, 1, Min(n, Len(seq)))

(* connection.execute of a SELECT: the rows of the table that satisfy the   *)
(* WHERE text, after OFFSET and LIMIT, each as Object.values gives it.      *)
mysqlSelect(stmt, tables) ==
  LET matching == SelectSeq(tables[stmt.table],
                            LAMBDA row : WhereHolds(stmt.where, row, tables))
      skipped == IF IsSome(stmt.offset) THEN Skip(matching, stmt.offset[1]) ELSE matching
      limited == IF IsSome(stmt.limit) THEN Take(skipped, stmt.limit[1]) ELSE skipped
  IN [i \in 1..Len(limited) |-> Values(limited[i])]

(* connection.execute of an INSERT: the bound values become a row, column   *)
(* by column.                                                               *)
mysqlInsert(stmt, tables) ==
  [tables EXCEPT ![stmt.table] =
     Append(@, [i \in 1..Len(stmt.columns) |->
                  [k |-> stmt.columns[i], v |-> stmt.params[1][i]]])]

IsBlocked(tableName) == Contains(config.security.blockedTables, tableName)

HasRoom(tableName) == \A i \in 1..2 : Len(mysql.tables[i][tableName]) < MaxStored

(* The contents after the request, the rows it returned from each database  *)
(* state and the insert it made.                                            *)
Remember(tables, rows, insert) ==
  mysql' = [tables |-> tables, rows |-> rows, last |-> insert, prev |-> mysql.last]

StoredListTables(out) ==
  /\ ListTablesCase(out)
  /\ LET res == listTables(out).res
     IN Remember(mysql.tables, [i \in 1..2 |-> IF res.success THEN res.data ELSE <<>>], None)
  /\ HandlerFrame

(* DESCRIBE answers the columns, the count statement the number of rows.    *)
StoredDescribeTable(tableName, out1, out2, first) ==
  /\ server = "running"
  /\ tableName \in StoredTables
  /\ request' = Request("mysql_describe_table", tableName, NoOptions, <<>>, None)
  /\ answers' = <<out1, out2>>
  /\ LET h == describeTable(tableName, out1, out2, first)
     IN /\ Respond(h, "formatted")
        /\ Remember(mysql.tables,
                    [i \in 1..2 |-> IF h.res.success
                                    THEN <<DescribeRows, <<Len(mysql.tables[i][tableName])>> >>
                                    ELSE <<>>],
                    None)
  /\ HandlerFrame

StoredSelectData(tableName, options, out) ==
  /\ server = "running"
  /\ tableName \in StoredTables
  /\ answers' = <<out>>
  /\ request' = Request("mysql_select_data", tableName, options, <<>>, None)
  /\ LET h == selectData(tableName, options, out)
     IN /\ Respond(h, "formatted")
        /\ Remember(mysql.tables,
                    [i \in 1..2 |-> IF h.res.success
                                    THEN mysqlSelect(h.stmts[1], mysql.tables[i])
                                    ELSE <<>>],
                    None)
  /\ HandlerFrame

StoredInsertData(tableName, data, out) ==
  /\ server = "running"
  /\ tableName \in StoredTables /\ HasRoom(tableName)
  /\ answers' = <<out>>
  /\ request' = Request("mysql_insert_data", tableName, NoOptions, data, None)
  /\ IF ~config.features.create
     THEN Refuse(InsertToolDisabledMsg) /\ Remember(mysql.tables, << <<>>, <<>> >>, None)
     ELSE LET h == insertData(tableName, data, out)
          IN /\ Respond(h, "Data inserted successfully")
             /\ Remember([i \in 1..2 |-> IF h.res.success
                                          THEN mysqlInsert(h.stmts[1], mysql.tables[i])
                                          ELSE mysql.tables[i]],
                         << <<>>, <<>> >>,
                         IF h.res.success
                         THEN Some([tableName |-> tableName, data |-> data,
                                    hadA |-> HasNameA(mysql.tables[1][tableName])])
                         ELSE None)
  /\ HandlerFrame

(* Another client of the database writes a row: into both database states,  *)
(* or into one of them when the table is listed in blockedTables.           *)
DbInsert(tableName, data, copies) ==
  /\ tableName \in StoredTables /\ HasRoom(tableName)
  /\ copies # {}
  /\ copies = {1, 2} \/ IsBlocked(tableName)
  /\ mysql' = [mysql EXCEPT
                 !.tables = [i \in 1..2 |-> IF i \in copies
                                            THEN [@[i] EXCEPT ![tableName] = Append(@, data)]
                                            ELSE @[i]],
                 !.last = None, !.prev = None]
  /\ UNCHANGED <<config, request, result, response, dbCall, stmts, securityLog, tools,
                 startup, server, answers, calls, free, join, dbTables, listed, boot>>

InitData ==
  /\ InitBuilder
  /\ config.security.allowedTables \in {None, Some(<<Users>>)}

NextData ==
  \/ \E out \in Outcomes : StoredListTables(out)
  \/ \E t \in StoredTables, out1 \in Outcomes, out2 \in Outcomes, first \in 1..2 :
       StoredDescribeTable(t, out1, out2, first)
  \/ \E t \in StoredTables, o \in StoredOptions, out \in Outcomes :
       StoredSelectData(t, o, out)
  \/ \E w \in StoredInserts, out \in Outcomes : StoredInsertData(w.tableName, w.data, out)
  \/ \E w \in StoredInserts, copies \in SUBSET {1, 2} : DbInsert(w.tableName, w.data, copies)

DataSpec == InitData /\ [][NextData]_vars

(***************************************************************************)
(* executeQuery step by step, for concurrent calls over the connection      *)
(* pool.  Each call is pool.getConnection (which waits while the pool has   *)
(* no free connection, or throws), then connection.execute, then the        *)
(* finally block; the code between two awaits runs without interleaving.    *)
(* Calls 1 and 2 are the two statements of one getTableInfo, joined by      *)
(* Promise.all; the other calls are single statements.                      *)
(***************************************************************************)
JoinCalls == {1, 2}

(* The finally block with the release moved to the end of the try block.    *)
releases_TryOnly(connection, threw) == IF connection # 0 /\ ~threw THEN 1 ELSE 0

(* The number of connection.release() calls the finally block makes.        *)
releases(connection, threw) == IF connection # 0 THEN 1 ELSE 0

Held == (1..ConnectionLimit) \ free

DescribeStmt(tableName) == Stmt("DESCRIBE", tableName, <<>>, None, None, None, None, None)
CountStmt(tableName) == Stmt("SELECT COUNT", tableName, <<>>, None, None, None, None, None)

(* What the driver returns for a statement that succeeds.                   *)
RowsOf(query) ==
  CASE query.verb = "DESCRIBE" -> DescribeRows
    [] query.verb = "SELECT COUNT" -> CountRows
    [] OTHER -> <<>>

(* Promise.all settling as soon as one statement has returned.              *)
JoinAfter_FirstWins(c, cs) ==
  IF c \notin JoinCalls \/ join.state # "pending" THEN join
  ELSE IF cs[c].outcome = "threw"
  THEN [join EXCEPT !.state = "rejected", !.error = cs[c].error]
  ELSE [join EXCEPT !.state = "resolved",
                    !.result = Some(TableInfo(join.table, cs[1].rows, cs[2].rows))]

(* Promise.all after call c has settled, cs being the calls then: rejected  *)
(* by the first statement that throws, resolved when both have returned.    *)
JoinAfter(c, cs) ==
  IF c \notin JoinCalls \/ join.state # "pending" THEN join
  ELSE IF cs[c].outcome = "threw"
  THEN [join EXCEPT !.state = "rejected", !.error = cs[c].error]
  ELSE IF \A d \in JoinCalls : cs[d].outcome = "returned"
  THEN [join EXCEPT !.state = "resolved",
                    !.result = Some(TableInfo(join.table, cs[1].rows, cs[2].rows))]
  ELSE join

PoolFrame ==
  UNCHANGED <<config, request, result, response, dbCall, stmts, securityLog, tools,
              startup, server, answers, dbTables, listed, boot, mysql>>

ExecuteQueryStart(c) ==
  /\ c \notin JoinCalls
  /\ calls[c].pc = "idle"
  /\ calls' = [calls EXCEPT ![c].pc = "acquiring",
                            ![c].query = Some(Stmt("SELECT", Users, <<>>, None, None, None,
                                                   None, None))]
  /\ UNCHANGED <<free, join>>
  /\ PoolFrame

GetTableInfoStart(tableName) ==
  /\ join.state = "none"
  /\ IF ~validateTableName(tableName)
     THEN /\ join' = [join EXCEPT !.state = "rejected", !.table = tableName,
                                  !.error = InvalidTableNameMsg]
          /\ UNCHANGED calls
     ELSE /\ join' = [join EXCEPT !.state = "pending", !.table = tableName]
          /\ calls' = [calls EXCEPT ![1].pc = "acquiring",
                                    ![1].query = Some(DescribeStmt(tableName)),
                                    ![2].pc = "acquiring",
                                    ![2].query = Some(CountStmt(tableName))]
  /\ UNCHANGED free
  /\ PoolFrame

PoolGetConnection(c, id) ==
  /\ calls[c].pc = "acquiring"
  /\ id \in free
  /\ calls' = [calls EXCEPT ![c].pc = "executing", ![c].connection = id]
  /\ free' = free \ {id}
  /\ UNCHANGED join
  /\ PoolFrame

PoolGetConnectionFails(c, message) ==
  /\ calls[c].pc = "acquiring"
  /\ LET n == releases(calls[c].connection, TRUE)
         cs == [calls EXCEPT ![c].pc = "done", ![c].outcome = "threw",
                             ![c].error = message, ![c].released = @ + n]
     IN /\ calls' = cs
        /\ free' = IF n > 0 THEN free \cup {calls[c].connection} ELSE free
        /\ join' = JoinAfter(c, cs)
  /\ PoolFrame

ConnectionExecute(c, out) ==
  /\ calls[c].pc = "executing"
  /\ LET threw == out # "ok"
         n == releases(calls[c].connection, threw)
         cs == [calls EXCEPT ![c].pc = "done",
                             ![c].outcome = IF threw THEN "threw" ELSE "returned",
                             ![c].error = IF threw THEN ErrorMessage(out) ELSE "",
                             ![c].rows = IF threw THEN <<>> ELSE RowsOf(calls[c].query[1]),
                             ![c].released = @ + n]
     IN /\ calls' = cs
        /\ free' = IF n > 0 THEN free \cup {calls[c].connection} ELSE free
        /\ join' = JoinAfter(c, cs)
  /\ PoolFrame

PoolTimeoutMsg == "ETIMEDOUT"

InitPool ==
  /\ Init
  /\ config.features = [fetch |-> TRUE, create |-> FALSE, update |-> FALSE,
                        delete |-> FALSE, createTable |-> FALSE]
  /\ config.security = [allowedTables |-> None, blockedTables |-> <<>>,
                        maxRows |-> MaxRowsBound, readOnly |-> TRUE]

NextPool ==
  \/ \E c \in 1..MaxCalls : ExecuteQueryStart(c)
  \/ \E t \in {Users, BadName} : GetTableInfoStart(t)
  \/ \E c \in 1..MaxCalls, id \in 1..ConnectionLimit : PoolGetConnection(c, id)
  \/ \E c \in 1..MaxCalls : PoolGetConnectionFails(c, PoolTimeoutMsg)
  \/ \E c \in 1..MaxCalls, out \in Outcomes : ConnectionExecute(c, out)

PoolSpec == InitPool /\ [][NextPool]_vars

(***************************************************************************)
(* ListTables over a database whose table list changes between requests.    *)
(* listed keeps, for the last two ListTables calls that succeeded, the      *)
(* table list the database reported and the response.                       *)
(***************************************************************************)
TableLists == {<<>>, DbTables, <<Secrets, Users>>, <<Orders, Users>>}

LastTwo(s) == IF Len(s) > 2 THEN SubSeq(s, Len(s) - 1, Len(s)) ELSE s

Listing(res) == [tables |-> dbTables, data |-> res.data, rowCount |-> res.rowCount]

ObservedListTables(out) ==
  /\ ListTablesCase(out)
  /\ listed' = LET res == listTables(out).res
               IN IF res.success THEN LastTwo(Append(listed, Listing(res))) ELSE listed
  /\ UNCHANGED <<config, tools, startup, server, calls, free, join, dbTables, boot, mysql>>

(* Tables are created and dropped in the database.                          *)
DbChange(tables) ==
  /\ tables # dbTables
  /\ dbTables' = tables
  /\ UNCHANGED <<config, request, result, response, dbCall, stmts, securityLog, tools,
                 startup, server, answers, calls, free, join, listed, boot, mysql>>

InitList ==
  /\ Init
  /\ ~config.features.create /\ ~config.features.update
  /\ ~config.features.delete /\ ~config.features.createTable

NextList ==
  \/ \E out \in Outcomes : ObservedListTables(out)
  \/ \E tables \in TableLists : DbChange(tables)
  \/ \E t \in {Users, Secrets}, out1 \in Outcomes, out2 \in Outcomes :
       CallDescribeTable(t, out1, out2, 1)
  \/ \E t \in {Users, Secrets}, out \in Outcomes : CallSelectData(t, NoOptions, out)

ListSpec == InitList /\ [][NextList]_vars

(***************************************************************************)
(* CreateTable requests whose arguments may be absent.  The arguments are a *)
(* record holding the keys the caller sent; the handler reads an absent     *)
(* table_name as undefined, which like the empty name is falsy, and an      *)
(* absent columns as the empty list.                                        *)
(***************************************************************************)
CreateTableArgs ==
  {[table_name |-> t, columns |-> c] : t \in {EmptyName, Users}, c \in ColumnSpecs}
    \cup {[table_name |-> t] : t \in {EmptyName, Users}}
    \cup {[columns |-> c] : c \in ColumnSpecs}
    \cup {<<>>}

ArgTableName(args) == IF "table_name" \in DOMAIN args THEN args.table_name ELSE EmptyName

ArgColumns(args) == IF "columns" \in DOMAIN args THEN args.columns ELSE <<>>

CallCreateTableArgs(args, out) ==
  /\ args \in CreateTableArgs
  /\ CallCreateTable(ArgTableName(args), ArgColumns(args), out)

NextShape ==
  \E args \in CreateTableArgs, out \in Outcomes : CallCreateTableArgs(args, out)

ShapeSpec == Init /\ [][NextShape]_vars

(***************************************************************************)
(* Startup and shutdown: main registers the signal handlers and awaits      *)
(* start(), which tests the connection and connects the transport; a        *)
(* failure runs cleanup() and rethrows, and main exits with code 1.  A      *)
(* signal handler awaits cleanup() and exits with code 0.  The code between *)
(* two awaits runs without interleaving; process.exit ends everything.      *)
(***************************************************************************)
ConnectionFailedPrefix == "Database connection failed: "

(* new Error(`Database connection failed: ${error.message}`)                *)
TestError(message) == <<ConnectionFailedPrefix, message>>

TransportErrorMsg == "transport closed"

(* testConnection releasing the connection in a finally block.              *)
testReleases_Finally(pingOut) == 1

(* The number of connection.release() calls testConnection makes for an     *)
(* acquired connection: the release follows the ping inside the try block.  *)
testReleases(pingOut) == IF pingOut = "ok" THEN 1 ELSE 0

(* cleanup() with the catch rethrowing.                                     *)
cleanupResult_Rethrows(closeOut) ==
  [poolClosed |-> closeOut = "ok",
   thrown |-> IF closeOut = "ok" THEN None ELSE Some(ErrorMessage(closeOut))]

(* cleanup(): try { await this.db.close() } catch { log }: what pool.end    *)
(* did and the error cleanup lets through.                                  *)
cleanupResult(closeOut) == [poolClosed |-> closeOut = "ok", thrown |-> None]

(* await this.cleanup(); throw error                                        *)
startRejection(error, cleanup) ==
  IF IsSome(cleanup.thrown) THEN cleanup.thrown[1] ELSE error

Alive == boot.pc # "none" /\ boot.exit = None

BootFrame ==
  UNCHANGED <<config, request, result, response, dbCall, stmts, securityLog, tools,
              startup, server, answers, calls, free, join, dbTables, listed, mysql>>

MainStart ==
  /\ boot.pc = "none"
  /\ boot' = [boot EXCEPT !.pc = "acquiring"]
  /\ BootFrame

TestGetConnection(out) ==
  /\ Alive /\ boot.pc = "acquiring"
  /\ boot' = IF out = "ok"
             THEN [boot EXCEPT !.pc = "pinging", !.connection = 1]
             ELSE [boot EXCEPT !.pc = "cleanup",
                               !.testError = Some(TestError(ErrorMessage(out))),
                               !.closeCalls = @ + 1]
  /\ BootFrame

TestPing(out) ==
  /\ Alive /\ boot.pc = "pinging"
  /\ boot' = IF out = "ok"
             THEN [boot EXCEPT !.pc = "connecting", !.released = @ + testReleases(out)]
             ELSE [boot EXCEPT !.pc = "cleanup", !.released = @ + testReleases(out),
                               !.testError = Some(TestError(ErrorMessage(out))),
                               !.closeCalls = @ + 1]
  /\ BootFrame

ServerConnect(out) ==
  /\ Alive /\ boot.pc = "connecting"
  /\ boot' = IF out = "ok"
             THEN [boot EXCEPT !.pc = "started", !.start = "resolved"]
             ELSE [boot EXCEPT !.pc = "cleanup", !.closeCalls = @ + 1]
  /\ BootFrame

StartCleanupDone(closeOut) ==
  /\ Alive /\ boot.pc = "cleanup"
  /\ LET c == cleanupResult(closeOut)
         error == IF IsSome(boot.testError) THEN boot.testError[1] ELSE TransportErrorMsg
     IN boot' = [boot EXCEPT !.pc = "rejected", !.start = "rejected",
                             !.startError = Some(startRejection(error, c)),
                             !.pool = IF c.poolClosed THEN "closed" ELSE @,
                             !.cleanups = @ + (IF IsSome(c.thrown) THEN 0 ELSE 1),
                             !.cleanupThrown = @ + (IF IsSome(c.thrown) THEN 1 ELSE 0),
                             !.closeFailures = @ + (IF c.poolClosed THEN 0 ELSE 1),
                             !.exit = Some(1)]
  /\ BootFrame

Signal(h) ==
  /\ Alive /\ boot.handlers[h] = "idle"
  /\ boot' = [boot EXCEPT !.handlers[h] = "cleanup", !.closeCalls = @ + 1]
  /\ BootFrame

SignalCleanupDone(h, closeOut) ==
  /\ Alive /\ boot.handlers[h] = "cleanup"
  /\ LET c == cleanupResult(closeOut)
     IN boot' = IF IsSome(c.thrown)
                THEN [boot EXCEPT !.handlers[h] = "failed", !.cleanupThrown = @ + 1,
                                  !.closeFailures = @ + (IF c.poolClosed THEN 0 ELSE 1),
                                  !.pool = IF c.poolClosed THEN "closed" ELSE @]
                ELSE [boot EXCEPT !.handlers[h] = "done", !.cleanups = @ + 1,
                                  !.closeFailures = @ + (IF c.poolClosed THEN 0 ELSE 1),
                                  !.pool = IF c.poolClosed THEN "closed" ELSE @,
                                  !.exit = Some(0)]
  /\ BootFrame

NextStart ==
  \/ MainStart
  \/ \E out \in DriverAnswers : TestGetConnection(out)
  \/ \E out \in DriverAnswers : TestPing(out)
  \/ \E out \in Outcomes : ServerConnect(out)
  \/ \E closeOut \in Outcomes : StartCleanupDone(closeOut)
  \/ \E h \in 1..MaxSignals : Signal(h)
  \/ \E h \in 1..MaxSignals, closeOut \in Outcomes : SignalCleanupDone(h, closeOut)

StartSpec == InitPool /\ [][NextStart]_vars

(***************************************************************************)
(* Construction: the server resolves its configuration from the environment *)
(* and the constructor overrides; when validation throws there is no server *)
(* and nothing is handled (config then holds the rejected value, which      *)
(* nothing reads).                                                          *)
(***************************************************************************)
SecretsList == <<"s","e","c","r","e","t","s">>

Envs ==
  {[NoEnv EXCEPT !.MYSQL_PASSWORD = p, !.MYSQL_ALLOW_CREATE = c, !.MYSQL_READ_ONLY = r,
                 !.MYSQL_MAX_ROWS = m, !.MYSQL_BLOCKED_TABLES = b] :
     p \in {None, Some("pw")}, c \in {None, Some("true")}, r \in {None, Some("false")},
     m \in {None, Some(<<"2">>), Some(<<"0">>)}, b \in {None, Some(SecretsList)}}

Overrides == {None, Some([security |-> [maxRows |-> MaxRowsBound]])}

InitConfig ==
  \E env \in Envs, overrides \in Overrides :
    LET validated == validateConfig(mergedConfig(getDefaultConfig(env), overrides))
    IN /\ startup = Some([env |-> env, overrides |-> overrides])
       /\ config = validated.value
       /\ server = IF IsSome(validated.error) THEN "failed" ELSE "running"
       /\ request = NoRequest
       /\ result = None
       /\ response = OkText("")
       /\ dbCall = "none"
       /\ stmts = <<>>
       /\ securityLog = <<>>
       /\ tools = <<>>
       /\ answers = <<>>
       /\ calls = [c \in 1..MaxCalls |-> IdleCall]
       /\ free = 1..ConnectionLimit
       /\ join = NoJoin
       /\ dbTables = DbTables
       /\ listed = <<>>
       /\ boot = NoBoot
       /\ mysql = NoMysql

NextConfig ==
  \/ ListTools
  \/ \E out \in Outcomes : CallListTables(out)
  \/ \E t \in {Users, Secrets}, out1 \in Outcomes, out2 \in Outcomes, first \in 1..2 :
       CallDescribeTable(t, out1, out2, first)
  \/ \E t \in {Users, Secrets}, out \in Outcomes,
        o \in SelectOptions({None, Some("id = 1")}, {None, Some(MaxLimit)}, {None}) :
       CallSelectData(t, o, out)
  \/ \E t \in {Users, Secrets}, d \in DataSets, out \in Outcomes : CallInsertData(t, d, out)
  \/ \E t \in {Users, Secrets}, d \in DataSets, out \in Outcomes :
       CallUpdateData(t, d, Some("id = 1"), None, out)
  \/ \E t \in {Users, Secrets}, out \in Outcomes :
       CallDeleteData(t, Some("id = 1"), None, out)
  \/ \E t \in {Users, Secrets}, c \in ColumnSpecs, out \in Outcomes :
       CallCreateTable(t, c, out)

ConfigSpec == InitConfig /\ [][NextConfig]_vars

(***************************************************************************)
(* The access gate as the specification states it.                          *)
(***************************************************************************)
ReadTools == {"mysql_list_tables", "mysql_describe_table", "mysql_select_data"}
MutationTools ==
  {"mysql_insert_data", "mysql_update_data", "mysql_delete_data", "mysql_create_table"}
TableTools == (ReadTools \cup MutationTools) \ {"mysql_list_tables"}

FeatureEnabled(tool) ==
  CASE tool \in ReadTools -> config.features.fetch
    [] tool = "mysql_insert_data" -> config.features.create
    [] tool = "mysql_update_data" -> config.features.update
    [] tool = "mysql_delete_data" -> config.features.delete
    [] tool = "mysql_create_table" -> config.features.createTable
    [] OTHER -> FALSE

FeatureDisabledTexts ==
  {FetchDisabledMsg, CreateDisabledMsg, UpdateDisabledMsg, DeleteDisabledMsg,
   CreateTableDisabledMsg, InsertToolDisabledMsg}

TableBlocked(tableName) == Contains(config.security.blockedTables, tableName)

TableNotAllowed(tableName) ==
  /\ IsSome(config.security.allowedTables)
  /\ Len(config.security.allowedTables[1]) > 0
  /\ ~Contains(config.security.allowedTables[1], tableName)

ShapeInvalid(req) ==
  \/ /\ req.tool = "mysql_create_table"
     /\ (req.tableName = EmptyName \/ Len(req.options.columns) = 0)
  \/ /\ req.tool \in {"mysql_update_data", "mysql_delete_data"}
     /\ ~TruthyStr(req.options.where)

(* A request whose shape is valid and whose table name is an identifier.    *)
WellFormed(req) == ~ShapeInvalid(req) /\ validateTableName(req.tableName)

NothingExecuted == dbCall = "none" /\ stmts = <<>>

DeniedWith(texts) == response.isError /\ response.text \in texts /\ NothingExecuted

(* The reason the gate of the specification gives a request, "Allow" when   *)
(* every check passes.                                                      *)
GateReason(req) ==
  IF ~FeatureEnabled(req.tool) THEN "FeatureDisabled"
  ELSE IF req.tool \in MutationTools /\ config.security.readOnly THEN "ReadOnlyMode"
  ELSE IF req.tool \in TableTools /\ TableBlocked(req.tableName) THEN "TableBlocked"
  ELSE IF req.tool \in TableTools /\ TableNotAllowed(req.tableName) THEN "TableNotAllowed"
  ELSE IF ShapeInvalid(req) THEN "InvalidRequest"
  ELSE "Allow"

FailedChecks(req) ==
  {c \in {"feature", "readOnly", "table", "shape"} :
     \/ c = "feature" /\ ~FeatureEnabled(req.tool)
     \/ c = "readOnly" /\ req.tool \in MutationTools /\ config.security.readOnly
     \/ c = "table" /\ req.tool \in TableTools
          /\ (TableBlocked(req.tableName) \/ TableNotAllowed(req.tableName))
     \/ c = "shape" /\ ShapeInvalid(req)}

(* The reasons a response text stands for.                                  *)
ReasonsOf(resp) ==
  IF ~resp.isError THEN {"Allow"}
  ELSE IF resp.text \in FeatureDisabledTexts THEN {"FeatureDisabled"}
  ELSE IF resp.text = ReadOnlyMsg THEN {"ReadOnlyMode"}
  ELSE IF resp.text = TableDeniedMsg THEN {"TableBlocked", "TableNotAllowed"}
  ELSE IF resp.text = CreateTableShapeMsg THEN {"InvalidRequest"}
  ELSE {"ExecutionFailure"}

Handling == request.tool # "none"

(***************************************************************************)
(* Claims.                                                                  *)
(***************************************************************************)

(* C1: every call the QueryHandler makes into the DatabaseManager is for a  *)
(* request that passed the gate for its kind (feature flag, and read-only   *)
(* mode for mutations) and for its table name (isTableAllowed).             *)
GatedCalls ==
  {"getTableInfo", "selectFromTable", "insertIntoTable", "updateTable",
   "deleteFromTable", "createTable"}

C1_CallsPassedGate ==
  (Handling /\ dbCall \in GatedCalls) =>
    /\ FeatureEnabled(request.tool)
    /\ (request.tool \in MutationTools => ~config.security.readOnly)
    /\ (request.tool \in TableTools => isTableAllowed(request.tableName))

(* C2: a well-formed request of any table-carrying kind that targets a      *)
(* member of blockedTables, with the kind's feature enabled and readOnly    *)
(* false, is denied with the table denial and nothing is executed, also     *)
(* when the table is in allowedTables.                                      *)
C2_BlockedTableDenied ==
  ( /\ request.tool \in TableTools
    /\ TableBlocked(request.tableName)
    /\ FeatureEnabled(request.tool)
    /\ ~config.security.readOnly
    /\ WellFormed(request) )
  => DeniedWith({TableDeniedMsg})

(* C3: when allowedTables is non-empty and the table is not a member of it, *)
(* a well-formed request of any table-carrying kind, with the kind's        *)
(* feature enabled and readOnly false, is denied with the table denial and  *)
(* nothing is executed.                                                     *)
C3_UnlistedTableDenied ==
  ( /\ request.tool \in TableTools
    /\ TableNotAllowed(request.tableName)
    /\ FeatureEnabled(request.tool)
    /\ ~config.security.readOnly
    /\ WellFormed(request) )
  => DeniedWith({TableDeniedMsg})

(* C4 as stated: a mutation request under readOnly is denied with the       *)
(* read-only reason whatever the value of the kind's feature flag.          *)
C4_ReadOnlyReasonAlways ==
  (request.tool \in MutationTools /\ config.security.readOnly)
  => DeniedWith({ReadOnlyMsg})

(* C4 amended: a mutation request under readOnly is always denied and       *)
(* nothing is executed; the reason is the read-only one when the kind's     *)
(* feature flag is enabled and the feature-disabled one when it is not.     *)
C4_ReadOnlyDenied ==
  (request.tool \in MutationTools /\ config.security.readOnly)
  => IF FeatureEnabled(request.tool)
     THEN DeniedWith({ReadOnlyMsg})
     ELSE DeniedWith(FeatureDisabledTexts)

C4_Witness ==
  /\ request.tool = "mysql_insert_data"
  /\ config.security.readOnly
  /\ config.features.create
  /\ response = ErrorText(ReadOnlyMsg)
  /\ securityLog # <<>>

(* C5: an Update or Delete whose filter is empty or absent, on an allowed   *)
(* table with the feature enabled and readOnly false, is rejected and no    *)
(* statement for it reaches the executor.                                   *)
C5_EmptyFilterRejected ==
  ( /\ request.tool \in {"mysql_update_data", "mysql_delete_data"}
    /\ ~TruthyStr(request.options.where)
    /\ isTableAllowed(request.tableName)
    /\ FeatureEnabled(request.tool)
    /\ ~config.security.readOnly )
  => (response.isError /\ stmts = <<>>)

(* C6: whenever the gate denies a request (feature disabled, read-only      *)
(* mode, table denied, invalid shape) no DatabaseManager method is called   *)
(* and no statement reaches the executor for that request.                  *)
GateDenialTexts ==
  FeatureDisabledTexts \cup {ReadOnlyMsg, TableDeniedMsg, CreateTableShapeMsg}

C6_DenialExecutesNothing ==
  (Handling /\ response.isError /\ response.text \in GateDenialTexts)
  => NothingExecuted

C6_Witness ==
  /\ request.tool = "mysql_select_data"
  /\ config.features.fetch
  /\ ~isTableAllowed(request.tableName)
  /\ response = ErrorText(TableDeniedMsg)
  /\ NothingExecuted

(* C7: a request of any kind, the read kinds ListTables and DescribeTable   *)
(* included, whose feature is disabled is denied with the feature-disabled  *)
(* reason and nothing is executed.                                          *)
C7_DisabledFeatureDenied ==
  (Handling /\ ~FeatureEnabled(request.tool))
  => DeniedWith(FeatureDisabledTexts)

(* C8: the reason returned for a request that fails several checks is the   *)
(* reason of the first failing check in the order feature, read-only,       *)
(* table authorization, shape.                                              *)
C8_FirstFailingCheck ==
  (Handling /\ Cardinality(FailedChecks(request)) >= 2)
  => GateReason(request) \in ReasonsOf(response)

(* C9: the limit of the statement of an admitted Select with requested      *)
(* limit L under maxRows M is min(L, M) for every supplied L, zero          *)
(* included, and M when no limit is supplied.                               *)
C9_EffectiveLimit ==
  (request.tool = "mysql_select_data" /\ stmts # <<>>)
  => stmts[1].limit =
       Some(IF IsSome(request.options.limit)
            THEN Min(request.options.limit[1], config.security.maxRows)
            ELSE config.security.maxRows)

(* C10: every SELECT statement that reaches the executor through selectData *)
(* carries a LIMIT clause whose value does not exceed maxRows, whatever     *)
(* limit and offset the caller supplies.                                    *)
C10_LimitCapped ==
  \A i \in 1..Len(stmts) :
    stmts[i].verb = "SELECT" =>
      (IsSome(stmts[i].limit) /\ stmts[i].limit[1] <= config.security.maxRows)

C10_Witness ==
  /\ request.tool = "mysql_select_data"
  /\ IsSome(request.options.limit)
  /\ request.options.limit[1] > config.security.maxRows
  /\ IsSome(request.options.offset)
  /\ Len(stmts) = 1
  /\ stmts[1].verb = "SELECT"
  /\ stmts[1].limit = Some(config.security.maxRows)

(* C11: in no statement that reaches the executor for DescribeTable,        *)
(* Select, Insert, Update or Delete does an interpolated identifier, the    *)
(* table name or a column name, fail the identifier pattern.                *)
IsIdentifier(name) ==
  /\ Len(name) > 0
  /\ name[1] \in Letters \cup {"_"}
  /\ \A i \in 2..Len(name) : name[i] \in Letters \cup Digits \cup {"_"}

C11_IdentifiersValidated ==
  \A i \in 1..Len(stmts) :
    stmts[i].verb \in {"DESCRIBE", "SELECT COUNT", "SELECT", "INSERT", "UPDATE", "DELETE"}
    => /\ IsIdentifier(stmts[i].table)
       /\ \A j \in 1..Len(stmts[i].columns) : IsIdentifier(stmts[i].columns[j])

(* C12: no caller-supplied value (filter text, ordering text, limit,        *)
(* offset, column names) is part of the text of a dispatched statement;     *)
(* such values reach the executor only as bound parameters.                 *)
C12_OnlyBoundParameters ==
  \A i \in 1..Len(stmts) :
    /\ TruthyStr(request.options.where) => stmts[i].where # request.options.where
    /\ TruthyStr(request.options.orderBy) => stmts[i].orderBy # request.options.orderBy
    /\ IsSome(request.options.limit) => stmts[i].limit # request.options.limit
    /\ IsSome(request.options.offset) => stmts[i].offset # request.options.offset
    /\ request.options.columns # <<>> => stmts[i].columns # request.options.columns
    /\ request.data # <<>> => stmts[i].columns # Keys(request.data)

(* C13: a returned tool list always contains the three read tools and      *)
(* contains a mutation tool only when its feature flag is enabled; a call   *)
(* of a mutation tool whose flag is disabled is answered with an error and  *)
(* no DatabaseManager method is called.                                     *)
FlagOfTool ==
  [mysql_insert_data |-> config.features.create,
   mysql_update_data |-> config.features.update,
   mysql_delete_data |-> config.features.delete,
   mysql_create_table |-> config.features.createTable]

C13_ToolSurface ==
  /\ tools # <<>> =>
       /\ \A t \in ReadTools : Contains(tools, t)
       /\ \A t \in MutationTools : Contains(tools, t) => FlagOfTool[t]
  /\ (request.tool \in MutationTools /\ ~FlagOfTool[request.tool]) =>
       (response.isError /\ NothingExecuted)

C13_Witness ==
  /\ config.features.create /\ ~config.features.update
  /\ Contains(tools, "mysql_insert_data")
  /\ ~Contains(tools, "mysql_update_data")
  /\ request.tool = "mysql_update_data"
  /\ response = ErrorText(UpdateDisabledMsg)

(***************************************************************************)
(* C14 (as stated): with no environment variables and no constructor        *)
(* overrides the server runs under the default policy: readOnly true,       *)
(* create/update/delete/createTable disabled, fetch enabled, maxRows 1000;  *)
(* every Insert, Update, Delete and CreateTable request is denied and only  *)
(* read statements reach the executor.                                      *)
(***************************************************************************)
DefaultPolicy ==
  /\ config.security.readOnly
  /\ config.features.fetch
  /\ ~config.features.create /\ ~config.features.update
  /\ ~config.features.delete /\ ~config.features.createTable
  /\ config.security.maxRows = 1000

ReadVerbs == {"SHOW TABLES", "DESCRIBE", "SELECT COUNT", "SELECT"}

OnlyReadsExecuted ==
  /\ request.tool \in MutationTools => (response.isError /\ NothingExecuted)
  /\ \A i \in 1..Len(stmts) : stmts[i].verb \in ReadVerbs

PolicyDenialTexts == FeatureDisabledTexts \cup {ReadOnlyMsg, TableDeniedMsg}

C15_DenialLoggedOnce ==
  (Handling /\ response.isError /\ response.text \in PolicyDenialTexts) =>
    /\ Len(securityLog) = 1
    /\ securityLog[1].event # ""
    /\ securityLog[1].tableName = request.tableName
    /\ securityLog[1].operation # ""

(***************************************************************************)
(* C16: when the executor fails for a statement of an admitted request, the *)
(* operation returns success = false with the underlying failure message    *)
(* unchanged as its error text, and the executor is not invoked again: a    *)
(* request causes at most one executor call, DescribeTable at most two.     *)
(***************************************************************************)
MaxStatements(tool) == IF tool = "mysql_describe_table" THEN 2 ELSE 1

FailedAnswers == {i \in 1..Len(stmts) : answers[i] # "ok"}

C16_FailurePropagates ==
  Handling =>
    /\ Len(stmts) <= MaxStatements(request.tool)
    /\ FailedAnswers # {} =>
         /\ IsSome(result) /\ ~result[1].success
         /\ \E i \in FailedAnswers : result[1].error = ErrorMessage(answers[i])
         /\ response = ErrorText(result[1].error)

C16_Witness ==
  /\ request.tool = "mysql_describe_table"
  /\ Len(stmts) = 2
  /\ answers = <<"ER_NO_SUCH_TABLE", "ECONNREFUSED">>
  /\ IsSome(result) /\ ~result[1].success
  /\ result[1].error = "ECONNREFUSED"

(***************************************************************************)
(* C17: every connection executeQuery acquires from the pool is released    *)
(* exactly once, whether the statement succeeds or fails; under any         *)
(* interleaving of concurrent calls no connection is held once no statement *)
(* is in flight, and a failure to acquire a connection releases nothing.    *)
(***************************************************************************)
InFlight(c) == calls[c].pc \in {"acquiring", "executing"}

C17_ReleasedExactlyOnce ==
  /\ \A c \in 1..MaxCalls :
       /\ calls[c].released <= 1
       /\ calls[c].pc = "done" =>
            calls[c].released = (IF calls[c].connection # 0 THEN 1 ELSE 0)
       /\ calls[c].pc # "done" => calls[c].released = 0
  /\ Held = {calls[c].connection : c \in {d \in 1..MaxCalls : calls[d].pc = "executing"}}
  /\ (\A c \in 1..MaxCalls : ~InFlight(c)) => Held = {}

C17_Witness ==
  /\ \A c \in 1..MaxCalls : calls[c].pc = "done"
  /\ \E c \in 1..MaxCalls :
       calls[c].outcome = "threw" /\ calls[c].connection # 0 /\ calls[c].released = 1
  /\ \E c \in 1..MaxCalls : calls[c].outcome = "threw" /\ calls[c].connection = 0
  /\ \E c \in 1..MaxCalls : calls[c].outcome = "returned" /\ calls[c].released = 1
  /\ Held = {}

(***************************************************************************)
(* C18: DescribeTable dispatches its column statement and its row-count     *)
(* statement for the same table independently, each over its own pooled     *)
(* connection; success is returned only after both statements have          *)
(* completed and combines the ordered column descriptors of the first with  *)
(* the row count of the second; if either fails the operation fails.        *)
(***************************************************************************)
JoinDispatched == join.state # "none" /\ validateTableName(join.table)

C18_DescribeJoin ==
  /\ JoinDispatched =>
       /\ calls[1].pc # "idle" /\ calls[1].query = Some(DescribeStmt(join.table))
       /\ calls[2].pc # "idle" /\ calls[2].query = Some(CountStmt(join.table))
  /\ (calls[1].pc = "executing" /\ calls[2].pc = "executing") =>
       calls[1].connection # calls[2].connection
  /\ join.state = "resolved" =>
       /\ \A c \in JoinCalls : calls[c].pc = "done" /\ calls[c].outcome = "returned"
       /\ IsSome(join.result)
       /\ join.result[1].name = join.table
       /\ Len(join.result[1].columns) = Len(DescribeRows)
       /\ \A i \in 1..Len(DescribeRows) :
            /\ join.result[1].columns[i].name = DescribeRows[i][1]
            /\ join.result[1].columns[i].type = DescribeRows[i][2]
       /\ join.result[1].rowCount = CountRows[1][1]
  /\ (\E c \in JoinCalls : calls[c].outcome = "threw") =>
       (join.state = "rejected" /\ join.result = None)
  /\ join.state = "pending" => \E c \in JoinCalls : InFlight(c)

C18_Witness ==
  /\ join.state = "resolved"
  /\ join.table = Users
  /\ calls[1].connection # calls[2].connection
  /\ IsSome(join.result) /\ join.result[1].rowCount = 3

(***************************************************************************)
(* C19: for every policy and every database table list, a name T is in the  *)
(* ListTables result iff T is in the database's list and the per-table      *)
(* predicate used for DescribeTable and Select admits T (not in             *)
(* blockedTables, and in allowedTables when that list is non-empty); the    *)
(* result keeps the database's order and rowCount is the number of names.   *)
(***************************************************************************)
Admits(t) ==
  /\ ~TableBlocked(t)
  /\ (IsSome(config.security.allowedTables) /\ config.security.allowedTables[1] # <<>>)
       => Contains(config.security.allowedTables[1], t)

C19_ListIsFilteredTableList ==
  /\ \A t \in TableNames : Admits(t) <=> isTableAllowed(t)
  /\ \A i \in 1..Len(listed) :
       /\ \A t \in TableNames :
            Contains(listed[i].data, t) <=> (Contains(listed[i].tables, t) /\ Admits(t))
       /\ listed[i].data = SelectSeq(listed[i].tables, Admits)
       /\ listed[i].rowCount = Len(listed[i].data)

C19_Witness ==
  /\ listed # <<>>
  /\ listed[Len(listed)].tables = DbTables
  /\ listed[Len(listed)].data = <<Users>>
  /\ listed[Len(listed)].rowCount = 1
  /\ config.security.blockedTables = <<Secrets>>
  /\ config.security.allowedTables = Some(<<Users, Secrets>>)

ResolvedAtConstruction ==
  validateConfig(mergedConfig(getDefaultConfig(startup[1].env), startup[1].overrides)).value

C22_PolicyUnchanged ==
  (IsSome(startup) /\ server = "running") => config = ResolvedAtConstruction

C22_Witness ==
  /\ IsSome(startup) /\ server = "running"
  /\ config.features.create /\ ~config.security.readOnly
  /\ request.tool = "mysql_insert_data"
  /\ IsSome(result) /\ ~result[1].success /\ stmts # <<>>
  /\ tools # <<>>
  /\ config = ResolvedAtConstruction

(***************************************************************************)
(* C23: for an admitted Update, the bound parameters handed to the executor *)
(* are the update values in the order of the SET columns followed by the    *)
(* caller's filter parameters in their given order (none when none are      *)
(* supplied), and there are as many SET placeholders as data columns.       *)
(***************************************************************************)
FilterParams(req) == IF IsSome(req.whereParams) THEN req.whereParams[1] ELSE <<>>

C23_UpdateParameters ==
  (request.tool = "mysql_update_data" /\ stmts # <<>>) =>
    LET q == stmts[1]
        n == Len(request.data)
        wp == FilterParams(request)
    IN /\ Len(stmts) = 1 /\ q.verb = "UPDATE"
       /\ Len(q.columns) = n
       /\ IsSome(q.params) /\ Len(q.params[1]) = n + Len(wp)
       /\ \A i \in 1..n :
            q.columns[i] = request.data[i].k /\ q.params[1][i] = request.data[i].v
       /\ \A j \in 1..Len(wp) : q.params[1][n + j] = wp[j]

C23_Witness ==
  /\ request.tool = "mysql_update_data"
  /\ Len(request.data) = 2
  /\ request.whereParams = Some(<<"2", "1">>)
  /\ Len(stmts) = 1
  /\ stmts[1].params = Some(<<"a", "1", "2", "1">>)

(***************************************************************************)
(* C24: a CreateTable request that passes the feature and read-only checks  *)
(* but has an empty or missing table name, or an empty or missing column    *)
(* sequence, is rejected as an invalid request and the executor is never    *)
(* called for it.                                                           *)
(***************************************************************************)
C24_CreateTableShape ==
  (/\ request.tool = "mysql_create_table"
   /\ config.features.createTable /\ ~config.security.readOnly
   /\ (request.tableName = EmptyName \/ request.options.columns = <<>>)) =>
    /\ result = Some(McpResponse(FALSE, CreateTableShapeMsg, <<>>))
    /\ response = ErrorText(CreateTableShapeMsg)
    /\ NothingExecuted

C24_Witness ==
  /\ request.tool = "mysql_create_table"
  /\ config.features.createTable /\ ~config.security.readOnly
  /\ request.tableName = EmptyName /\ request.options.columns = <<ColName>>
  /\ response = ErrorText(CreateTableShapeMsg)
  /\ NothingExecuted

(***************************************************************************)
(* C25: configuration is resolved as defaults, then environment variables,  *)
(* then constructor parameters, field by field: an override that supplies   *)
(* only some fields of the security section (security: {maxRows: n}) leaves *)
(* the environment-derived values of the other fields of that section       *)
(* (blockedTables, allowedTables, readOnly) in force in the resolved policy.*)
(***************************************************************************)
SecurityFields == {"allowedTables", "blockedTables", "maxRows", "readOnly"}

C25_FieldwiseOverride ==
  (/\ IsSome(startup) /\ server = "running"
   /\ IsSome(startup[1].overrides)
   /\ "security" \in DOMAIN startup[1].overrides[1]) =>
    LET fromEnv == getDefaultConfig(startup[1].env).security
        given == startup[1].overrides[1].security
    IN \A f \in SecurityFields :
         config.security[f] = IF f \in DOMAIN given THEN given[f] ELSE fromEnv[f]

(***************************************************************************)
(* C27: the LIMIT value of every SELECT dispatched through selectData is a  *)
(* positive integer in the range 1..maxRows, for every limit the caller     *)
(* supplies, negative numbers included.                                     *)
(***************************************************************************)
C27_LimitInRange ==
  \A i \in 1..Len(stmts) :
    stmts[i].verb = "SELECT" =>
      (IsSome(stmts[i].limit) /\ stmts[i].limit[1] \in 1..config.security.maxRows)

(***************************************************************************)
(* C28: the connection acquired by testConnection at startup is released on *)
(* every path, including when the ping on the acquired connection fails.    *)
(***************************************************************************)
TestConnectionOver == boot.pc \notin {"none", "acquiring", "pinging"}

C28_TestConnectionReleased ==
  (TestConnectionOver /\ boot.connection # 0) => boot.released = 1

(***************************************************************************)
(* C29 as stated: once start() has rejected after a failed connection test, *)
(* the connection pool is closed.                                           *)
(***************************************************************************)
C29_PoolClosedBeforeReject ==
  (boot.start = "rejected" /\ IsSome(boot.testError)) => boot.pool = "closed"

(***************************************************************************)
(* C29: if the connection test fails during start(), the pool has been      *)
(* asked to close and cleanup has run to completion before start() rejects, *)
(* start() rejects with the error the test threw, and the pool is closed    *)
(* unless pool.end() itself failed; cleanup() never propagates an error,    *)
(* also when closing the pool fails or cleanup is invoked more than once    *)
(* (startup failure followed by a signal, or two signals).                  *)
(***************************************************************************)
C29_CleanupBeforeReject ==
  /\ boot.cleanupThrown = 0
  /\ \A h \in 1..MaxSignals : boot.handlers[h] # "failed"
  /\ (boot.start = "rejected" /\ IsSome(boot.testError)) =>
       /\ boot.startError = boot.testError
       /\ boot.cleanups >= 1 /\ boot.closeCalls >= 1
       /\ boot.pool = "closed" \/ boot.closeFailures >= 1
       /\ boot.exit = Some(1)
  /\ boot.pool = "closed" => boot.closeCalls > boot.closeFailures
  /\ boot.closeCalls =
       boot.cleanups + boot.cleanupThrown
       + (IF boot.pc = "cleanup" THEN 1 ELSE 0)
       + Cardinality({h \in 1..MaxSignals : boot.handlers[h] = "cleanup"})

C29_Witness ==
  /\ boot.start = "rejected"
  /\ boot.testError = Some(TestError("ECONNREFUSED"))
  /\ boot.startError = boot.testError
  /\ boot.closeCalls = 3 /\ boot.cleanups = 1
  /\ boot.pool = "open"

(***************************************************************************)
(* C30: the CallTool handler answers every request with a text response:    *)
(* an unknown tool name, a gate denial and an executor failure each yield a *)
(* text that starts with an error prefix, an unknown tool name executes     *)
(* nothing, and the text is a non-error text exactly when the QueryHandler  *)
(* method reported success after calling the DatabaseManager.               *)
(***************************************************************************)
KnownTools == ReadTools \cup MutationTools

Succeeded == IsSome(result) /\ result[1].success

C30_TextResponse ==
  Handling =>
    /\ response.prefix \in {"", ErrorPrefix, ThrownPrefix}
    /\ response.isError <=> response.prefix # ""
    /\ response.prefix = "" <=> Succeeded
    /\ Succeeded => dbCall # "none"
    /\ (IsSome(result) /\ ~result[1].success) => response = ErrorText(result[1].error)
    /\ (response.isError /\ response.text \in GateDenialTexts \cup {InsertToolDisabledMsg})
         => (response.prefix = ErrorPrefix /\ NothingExecuted)
    /\ request.tool \notin KnownTools =>
         (response = ThrownText(UnknownToolMsg) /\ NothingExecuted /\ result = None)

C30_Witness ==
  /\ request.tool = "mysql_drop_table"
  /\ response.isError
  /\ response.prefix = ThrownPrefix
  /\ response.text = UnknownToolMsg
  /\ NothingExecuted

(***************************************************************************)
(* C21 as stated: an Insert of {name: "a", age: 1} that succeeded, followed *)
(* by a Select on the same table with the filter name = 'a' that succeeded, *)
(* returns exactly one row, with the inserted values.                       *)
(***************************************************************************)
RoundTrip ==
  /\ request.tool = "mysql_select_data"
  /\ request.options.where = Some(NameIsA)
  /\ IsSome(result) /\ result[1].success
  /\ IsSome(mysql.prev)
  /\ mysql.prev[1].tableName = request.tableName
  /\ mysql.prev[1].data = RowA

C21_RoundTripOneRow == RoundTrip => mysql.rows[1] = <<Values(RowA)>>

(***************************************************************************)
(* C21: the same round trip on a table that held no row named "a" before    *)
(* the Insert returns exactly one row, with the inserted values; on any     *)
(* table it returns at least one row and only rows named "a".               *)
(***************************************************************************)
C21_RoundTripFreshName ==
  RoundTrip =>
    /\ Len(mysql.rows[1]) >= 1
    /\ \A i \in 1..Len(mysql.rows[1]) : mysql.rows[1][i][1] = "a"
    /\ ~mysql.prev[1].hadA => mysql.rows[1] = <<Values(RowA)>>

C21_Witness ==
  /\ RoundTrip
  /\ ~mysql.prev[1].hadA
  /\ Len(mysql.tables[1][request.tableName]) = 2
  /\ mysql.rows[1] = << <<"a", 1>> >>

(***************************************************************************)
(* C26: two database states that differ only in the contents of tables      *)
(* listed in blockedTables answer every ListTables, DescribeTable and       *)
(* Select request with the same rows.                                       *)
(***************************************************************************)
DifferOnlyInBlocked ==
  \A t \in StoredTables : ~IsBlocked(t) => mysql.tables[1][t] = mysql.tables[2][t]

C26_BlockedTableHidden ==
  (DifferOnlyInBlocked /\ request.tool \in ReadTools) => mysql.rows[1] = mysql.rows[2]

====
